---- MODULE Spec2Model ----
(***************************************************************************)
(* A model of src/tweety.py: the Tk form that starts one deletion run at a *)
(* time (TwitterDeleterApp), the run itself (process_deletions) and the    *)
(* two jobs it calls, delete_likes_in_range and delete_user_tweets_by_type.*)
(*                                                                         *)
(* The remote API is the environment.  A page of a Paginator is drawn when *)
(* the job asks for it, an item of a page when the for-loop takes it, and  *)
(* the outcome of get_me / unlike / delete_tweet when the call is made.    *)
(* An unlike or delete_tweet call either returns or raises the             *)
(* tweepy.TweepyException that the per-item handler names.                 *)
(*                                                                         *)
(* Time is counted in ticks.  A calendar day d is the ticks                *)
(* d * TicksPerDay + StartOfDay .. d * TicksPerDay + EndOfDay, where       *)
(* StartOfDay stands for 00:00:00.000000 and EndOfDay for 23:59:59.999999. *)
(***************************************************************************)
EXTENDS Integers, Sequences, FiniteSets, TLC

\* ------------------------------------------------------------- bounds
MaxDay == 1
MaxItems == 2

\* ---------------------------------------------------------- constants
StartOfDay == 0
EndOfDay == 1

TicksPerDay == EndOfDay + 1
Days == 0..MaxDay
MaxTime == (MaxDay + 1) * TicksPerDay - 1

\* ------------------------------------------------------------- values
None == [none |-> TRUE]

\* An aware datetime: its wall-clock reading and the UTC offset of its tzinfo.
Datetime(wall, off) == [wall |-> wall, utcoffset |-> off]

\* Aware datetimes are ordered by the instant they denote.
Instant(dt) == dt.wall - dt.utcoffset

DtLe(a, b) == Instant(a) <= Instant(b)

DtLt(a, b) == Instant(a) < Instant(b)

\* datetime.replace(tzinfo=timezone.utc): same wall-clock reading, offset 0.
ReplaceTzinfoUtc(dt) == [dt EXCEPT !.utcoffset = 0]

\* created_at as tweepy parses it from the API's ISO-8601 "...Z" string.
ApiTimes == {Datetime(w, 0) : w \in 0..MaxTime}

\* The text of a date entry: a well-formed YYYY-MM-DD date, or anything else.
DateText(d) == [fmt |-> "ok", day |-> d]

Malformed == [fmt |-> "bad"]

DateTexts == {DateText(d) : d \in Days} \cup {Malformed}

\* The relation types the jobs look for in referenced_tweets.
RefTypes == {"quoted", "retweeted"}

\* The items the API can return for get_users_tweets / get_liked_tweets.
\* id is the item's position in the stream of the job, page the request
\* that delivered it.
Tweet(id, pg, created, reply, refs) ==
    [id |-> id, page |-> pg, created_at |-> created,
     in_reply_to_user_id |-> reply, referenced_tweets |-> refs]

NoItem == Tweet(0, 0, None, FALSE, {})

TweetShapes ==
    {[created_at |-> c, in_reply_to_user_id |-> r, referenced_tweets |-> refs] :
        c \in ApiTimes \cup {None}, r \in BOOLEAN, refs \in SUBSET RefTypes}

\* A liked tweet is requested with tweet_fields=["created_at"] only.
LikedShapes ==
    {[created_at |-> c, in_reply_to_user_id |-> FALSE, referenced_tweets |-> {}] :
        c \in ApiTimes \cup {None}}

NoPage == [errors |-> FALSE, n |-> 0]

CallOutcomes == {"ok", "TweepyException"}

VARIABLES
    \* the process and the form
    client,              \* the global client: "None" or "Client"
    env,                 \* what the process found at startup
    startup,             \* what initialize_tweepy_client did and returned
    start_button,        \* "normal" or "disabled"
    start_date_entry, end_date_entry,
    delete_likes_var, delete_replies_var, delete_own_posts_var, delete_quotes_var,
    after_queue,         \* callbacks handed to root.after(0, ...)
    threads,             \* worker threads started and not yet returned
    \* process_deletions
    pc,
    start_dt_utc, end_dt_utc, user_id,
    identity,            \* what get_me answered in this run, "none" before the call
    invoked,             \* the jobs this run has called
    likes_error,         \* the likes job of this run ended on a logged error
    passed,              \* the tests this run has passed, in the order it passed them
    \* the job being executed
    flags,               \* delete_replies_flag, delete_quotes_flag, delete_own_posts_flag
    deleted_count, processed_count,
    page,                \* the page being iterated: errors reported, number of items
    idx,                 \* items of this page taken so far
    \* history of the job, for the properties
    job,                 \* "none", "likes" or "tweets"
    fetches,             \* page requests the Paginator has made
    taken,               \* items taken from the stream
    cur,                 \* the item taken last from the page being iterated
    curCalls,            \* the unlike / delete_tweet calls issued for cur
    okCalls,             \* unlike / delete_tweet calls that returned
    prev,                \* what happened to the item taken before cur
    term,                \* how the job ended
    liked_in_range       \* the likes job has taken an item created in the range

formVars == <<start_date_entry, end_date_entry, delete_likes_var,
              delete_replies_var, delete_own_posts_var, delete_quotes_var>>

procVars == <<client, env, startup>>

appVars == <<procVars, start_button, after_queue, threads>>

runVars == <<start_dt_utc, end_dt_utc, user_id, identity, invoked, likes_error, passed>>

jobVars == <<flags, deleted_count, processed_count, page, idx>>

histVars == <<job, fetches, taken, cur, curCalls, okCalls, prev, term, liked_in_range>>

vars == <<formVars, appVars, pc, runVars, jobVars, histVars>>


\* ------------------------------------------------ initialize_tweepy_client
CredentialNames == {"API_KEY", "API_SECRET", "ACCESS_TOKEN", "ACCESS_TOKEN_SECRET"}

GetMeOutcomes == {"ok", "errors", "no_data", "TweepyException", "Exception"}

\* What the process finds at startup: the .env file, the credentials that are
\* set and not empty after loading it, and what get_me would answer.
Envs ==
    [dotenv_exists : BOOLEAN, set_creds : SUBSET CredentialNames, get_me : GetMeOutcomes]

\* The client constructed and get_me called with whatever credentials are set.
InitializeTweepyClientNoCredentialTest(e) ==
    IF ~e.dotenv_exists
    THEN [client |-> "None", ok |-> FALSE, constructed |-> FALSE, get_me_calls |-> 0]
    ELSE IF e.get_me = "ok"
    THEN [client |-> "Client", ok |-> TRUE, constructed |-> TRUE, get_me_calls |-> 1]
    ELSE [client |-> "None", ok |-> FALSE, constructed |-> TRUE, get_me_calls |-> 1]

\* initialize_tweepy_client: the value left in the global client, the value
\* returned, whether tweepy.Client was constructed, and the number of get_me
\* calls made.
InitializeTweepyClient(e) ==
    IF ~e.dotenv_exists
    THEN [client |-> "None", ok |-> FALSE, constructed |-> FALSE, get_me_calls |-> 0]
    ELSE IF e.set_creds # CredentialNames
    THEN [client |-> "None", ok |-> FALSE, constructed |-> FALSE, get_me_calls |-> 0]
    ELSE IF e.get_me = "ok"
    THEN [client |-> "Client", ok |-> TRUE, constructed |-> TRUE, get_me_calls |-> 1]
    ELSE [client |-> "None", ok |-> FALSE, constructed |-> TRUE, get_me_calls |-> 1]

\* The answer of get_me taken for a user whatever it is.
GetAuthenticatedUserIdUnchecked(c, get_me) ==
    IF c = "None" THEN "None" ELSE "uid"

\* get_authenticated_user_id: the user id, or None.
GetAuthenticatedUserId(c, get_me) ==
    IF c = "None" THEN "None"
    ELSE IF get_me = "ok" THEN "uid"
    ELSE "None"

\* ----------------------------------------------------------- validate_dates
DayStart(d) == Datetime(d * TicksPerDay + StartOfDay, 0)

\* The end of the range at midnight, the first instant of the end date.
DayEndAtMidnight(d) == Datetime(d * TicksPerDay + StartOfDay, 0)

DayEnd(d) == Datetime(d * TicksPerDay + EndOfDay, 0)

NoRange == <<None, None>>

\* validate_dates without the comparison of the two ends.
ValidateDatesNoOrderTest(start_str, end_str) ==
    IF start_str.fmt # "ok" \/ end_str.fmt # "ok"
    THEN NoRange
    ELSE <<DayStart(start_str.day), DayEnd(end_str.day)>>

\* validate_dates: <<start_dt_utc, end_dt_utc>>, or <<None, None>>.
ValidateDates(start_str, end_str) ==
    IF start_str.fmt # "ok" \/ end_str.fmt # "ok"
    THEN NoRange
    ELSE LET s == DayStart(start_str.day)
             e == DayEnd(end_str.day)
         IN  IF DtLt(e, s) THEN NoRange ELSE <<s, e>>

\* ------------------------------------------------- the tests of the two jobs
\* InRange without its upper bound.
InRangeNoUpperBound(t, s, e) == DtLe(s, t)

\* start_dt_utc <= tweet_created_at_utc <= end_dt_utc
InRange(t, s, e) == DtLe(s, t) /\ DtLe(t, e)

\* tweet_created_at_utc < start_dt_utc
OlderThanStart(t, s) == DtLt(t, s)

IsReply(tw) == tw.in_reply_to_user_id

IsQuote(tw) == "quoted" \in tw.referenced_tweets

IsRetweet(tw) == "retweeted" \in tw.referenced_tweets

\* DeletionPaths with three independent ifs.
DeletionPathsIndependentIfs(tw, f) ==
    (IF f.replies /\ IsReply(tw) THEN <<"reply">> ELSE <<>>)
    \o (IF f.quotes /\ IsQuote(tw) THEN <<"quote">> ELSE <<>>)
    \o (IF f.own /\ ~IsReply(tw) /\ ~IsQuote(tw) THEN <<"own">> ELSE <<>>)

\* DeletionPaths with the quote branch tested before the reply branch.
DeletionPathsQuoteFirst(tw, f) ==
    IF f.quotes /\ IsQuote(tw) THEN <<"quote">>
    ELSE IF f.replies /\ IsReply(tw) THEN <<"reply">>
    ELSE IF f.own /\ ~IsReply(tw) /\ ~IsQuote(tw) THEN <<"own">>
    ELSE <<>>

\* DeletionPaths with an own-posts branch that does not look at the item.
DeletionPathsOwnForAny(tw, f) ==
    IF f.replies /\ IsReply(tw) THEN <<"reply">>
    ELSE IF f.quotes /\ IsQuote(tw) THEN <<"quote">>
    ELSE IF f.own THEN <<"own">>
    ELSE <<>>

\* The if / elif / elif chain of delete_user_tweets_by_type: the branches
\* whose delete_tweet call is reached, in order.
DeletionPaths(tw, f) ==
    IF f.replies /\ IsReply(tw) THEN <<"reply">>
    ELSE IF f.quotes /\ IsQuote(tw) THEN <<"quote">>
    ELSE IF f.own /\ ~IsReply(tw) /\ ~IsQuote(tw) THEN <<"own">>
    ELSE <<>>

\* TweetGate going on to the next item after an item older than the start.
TweetGateContinueOnOld(tw, s, e) ==
    IF tw.created_at = None THEN "no_date"
    ELSE IF InRange(ReplaceTzinfoUtc(tw.created_at), s, e) THEN "in_range"
    ELSE "continue"

\* TweetGate stopping at any item out of the range, newer ones too.
TweetGateReturnOnNew(tw, s, e) ==
    IF tw.created_at = None THEN "no_date"
    ELSE IF InRange(ReplaceTzinfoUtc(tw.created_at), s, e) THEN "in_range"
    ELSE "return"

\* What the loop body of delete_user_tweets_by_type does with an item before
\* it classifies it.
TweetGate(tw, s, e) ==
    IF tw.created_at = None THEN "no_date"
    ELSE LET t == ReplaceTzinfoUtc(tw.created_at)
         IN  IF InRange(t, s, e) THEN "in_range"
             ELSE IF OlderThanStart(t, s) THEN "return"
             ELSE "continue"

\* TweetCalls without the test for a retweet.
TweetCallsNoRetweetTest(tw, s, e, f) ==
    IF TweetGate(tw, s, e) # "in_range" THEN <<>>
    ELSE DeletionPaths(tw, f)

\* The delete_tweet calls of one item: none unless the item is in range and
\* no retweet.
TweetCalls(tw, s, e, f) ==
    IF TweetGate(tw, s, e) # "in_range" THEN <<>>
    ELSE IF IsRetweet(tw) THEN <<>>
    ELSE DeletionPaths(tw, f)

\* LikeGate stopping at an item older than the start, as the tweets job does.
LikeGateReturnOnOld(tw, s, e) ==
    IF tw.created_at = None THEN "no_date"
    ELSE LET t == ReplaceTzinfoUtc(tw.created_at)
         IN  IF InRange(t, s, e) THEN "in_range"
             ELSE IF OlderThanStart(t, s) THEN "return"
             ELSE "continue"

\* What the loop body of delete_likes_in_range does with an item.
LikeGate(tw, s, e) ==
    IF tw.created_at = None THEN "no_date"
    ELSE LET t == ReplaceTzinfoUtc(tw.created_at)
         IN  IF InRange(t, s, e) THEN "in_range"
             ELSE "continue"

\* An unlike call for every liked item that has a creation time.
LikeCallsWithoutRangeTest(tw, s, e) ==
    IF tw.created_at = None THEN <<>> ELSE <<"unlike">>

LikeCalls(tw, s, e) ==
    IF LikeGate(tw, s, e) = "in_range" THEN <<"unlike">> ELSE <<>>

\* The call's exception left to the handlers around the Paginator loop.
OnItemErrorAbort == "abort"

\* except tweepy.TweepyException around the unlike / delete_tweet call: the
\* error is logged and the loop goes on.
OnItemError == "continue"

\* The errors of a page not looked at.
OnPageErrorsIgnore == "ignore"

\* if page.errors: ... break
OnPageErrors == "break"

\* processed_count += 1, the first statement of the loop body.
ProcessedAfterTake(n, tw) == n + 1

\* deleted_count += 1 placed before the call.
DeletedBeforeCall(n, outcome) == n + 1

\* deleted_count += 1, the statement after the call inside the try.
DeletedAfterCall(n, outcome) == IF outcome = "ok" THEN n + 1 ELSE n

\* The calls issued out of the calls reached: a call that raises ends the
\* try block.  outs[i] is the outcome of the i-th call.
RECURSIVE Issue(_, _, _)
Issue(paths, outs, i) ==
    IF i > Len(paths) THEN <<>>
    ELSE IF outs[i] = "ok"
    THEN <<[path |-> paths[i], outcome |-> "ok"]>> \o Issue(paths, outs, i + 1)
    ELSE <<[path |-> paths[i], outcome |-> outs[i]]>>

RECURSIVE DeletedAfter(_, _, _)
DeletedAfter(n, calls, i) ==
    IF i > Len(calls) THEN n
    ELSE DeletedAfter(DeletedAfterCall(n, calls[i].outcome), calls, i + 1)

Failed(calls) == \E i \in DOMAIN calls : calls[i].outcome # "ok"

NumOk(calls) == Cardinality({i \in DOMAIN calls : calls[i].outcome = "ok"})

\* What happened to an item, as the items after it see it.
KindOf(tw, calls, before, s, e) ==
    IF tw.id = 0 THEN before
    ELSE IF Failed(calls) THEN "failed"
    ELSE IF tw.created_at = None THEN "other"
    ELSE IF DtLt(tw.created_at, s) THEN "old"
    ELSE IF DtLt(e, tw.created_at) THEN "new"
    ELSE "other"

\* What the Paginator can yield on its next step: the first request is always
\* made; a later one only if the previous page carried a next_token.  The
\* request raises, or answers a page: with errors (and data or none), with no
\* data, or with some of the items the stream still holds.
FetchOutcomes(made, got) ==
    {[kind |-> "raise", errors |-> FALSE, n |-> 0]}
    \cup (IF made >= 1 THEN {[kind |-> "exhausted", errors |-> FALSE, n |-> 0]} ELSE {})
    \cup {[kind |-> "page", errors |-> TRUE, n |-> k] : k \in {0, MaxItems}}
    \cup {[kind |-> "page", errors |-> FALSE, n |-> k] : k \in 0..(MaxItems - got)}


\* --------------------------------------------------------------- the form
\* TwitterDeleterApp.__init__: the logger, initialize_tweepy_client, then the
\* widgets.  No worker runs, the Start button is enabled.
Init ==
    /\ env \in Envs
    /\ startup = InitializeTweepyClient(env)
    /\ client = startup.client
    /\ start_button = "normal"
    /\ start_date_entry = DateText(0)
    /\ end_date_entry = DateText(MaxDay)
    /\ delete_likes_var = FALSE
    /\ delete_replies_var = FALSE
    /\ delete_own_posts_var = FALSE
    /\ delete_quotes_var = FALSE
    /\ after_queue = <<>>
    /\ threads = 0
    /\ pc = "idle"
    /\ start_dt_utc = None
    /\ end_dt_utc = None
    /\ user_id = "None"
    /\ identity = "none"
    /\ invoked = {}
    /\ likes_error = FALSE
    /\ passed = <<>>
    /\ flags = [replies |-> FALSE, quotes |-> FALSE, own |-> FALSE]
    /\ deleted_count = 0
    /\ processed_count = 0
    /\ page = NoPage
    /\ idx = 0
    /\ job = "none"
    /\ fetches = 0
    /\ taken = 0
    /\ cur = NoItem
    /\ curCalls = <<>>
    /\ okCalls = 0
    /\ prev = "none"
    /\ term = "none"
    /\ liked_in_range = FALSE

\* The user changes the form.  The main loop serves the widgets also while a
\* worker runs, so a change can come between any two steps of the worker; it
\* is taken at the last point before the worker reads what was changed.
\* The date entries are read by validate_dates, the first step of a run.
EditDates ==
    /\ pc = "idle"
    /\ start_date_entry' \in DateTexts
    /\ end_date_entry' \in DateTexts
    /\ UNCHANGED <<delete_likes_var, delete_replies_var, delete_own_posts_var,
                   delete_quotes_var, appVars, pc, runVars, jobVars, histVars>>

\* The check boxes are read for actions_selected, the likes box again before
\* the likes job and the other three again before the tweets job.
EditSelection ==
    /\ pc \in {"idle", "dispatch_likes", "dispatch_tweets"}
    /\ IF pc = "dispatch_tweets"
       THEN delete_likes_var' = delete_likes_var
       ELSE delete_likes_var' \in BOOLEAN
    /\ IF pc = "dispatch_likes"
       THEN UNCHANGED <<delete_replies_var, delete_own_posts_var, delete_quotes_var>>
       ELSE /\ delete_replies_var' \in BOOLEAN
            /\ delete_own_posts_var' \in BOOLEAN
            /\ delete_quotes_var' \in BOOLEAN
    /\ UNCHANGED <<start_date_entry, end_date_entry, appVars, pc, runVars,
                   jobVars, histVars>>

\* The tests of process_deletions that come before its first remote call,
\* in their order: the dates, the selection, the confirmation dialog.
AllTests == <<"dates", "selection", "confirmation">>

\* The Start button left as it is when the thread is started.
StartButtonLeftEnabled == "normal"

\* self.start_button.config(state=tk.DISABLED), before the thread is started.
StartButtonWhileRunning == "disabled"

\* start_deletion_thread, the command of the Start button (a disabled button
\* runs no command).
StartDeletionThread ==
    /\ start_button = "normal"
    /\ IF client = "None"
       THEN UNCHANGED <<start_button, threads, pc, identity, invoked, likes_error,
                        passed>>
       ELSE /\ start_button' = StartButtonWhileRunning
            /\ threads' = threads + 1
            /\ pc' = "validate"
            /\ identity' = "none"
            /\ invoked' = {}
            /\ likes_error' = FALSE
            /\ passed' = <<>>
    /\ UNCHANGED <<formVars, procVars, after_queue, start_dt_utc, end_dt_utc, user_id,
                   jobVars, histVars>>

\* The Tk main loop runs the oldest callback handed to root.after.
RunAfterCallback ==
    /\ after_queue # <<>>
    /\ after_queue' = Tail(after_queue)
    /\ start_button' = IF Head(after_queue) = "enable_start_button"
                       THEN "normal" ELSE start_button
    /\ UNCHANGED <<formVars, procVars, threads, pc, runVars, jobVars, histVars>>

\* ----------------------------------------------------- process_deletions
\* An exit path of process_deletions: the callbacks are handed to root.after
\* and the thread's target returns.
ExitRun(callbacks) ==
    /\ after_queue' = after_queue \o callbacks
    /\ invoked' = invoked
    /\ likes_error' = likes_error
    /\ passed' = passed
    /\ threads' = threads - 1
    /\ pc' = "idle"
    /\ start_dt_utc' = None
    /\ end_dt_utc' = None
    /\ user_id' = "None"
    /\ UNCHANGED <<procVars, start_button>>

\* start_dt_utc, end_dt_utc = self.validate_dates(), and the test after it.
Validate ==
    /\ pc = "validate"
    /\ LET r == ValidateDates(start_date_entry, end_date_entry)
       IN  IF r[1] = None \/ r[2] = None
           THEN ExitRun(<<"enable_start_button">>) /\ UNCHANGED identity
           ELSE /\ start_dt_utc' = r[1]
                /\ end_dt_utc' = r[2]
                /\ pc' = "select"
                /\ passed' = Append(passed, "dates")
                /\ UNCHANGED <<appVars, user_id, identity, invoked, likes_error>>
    /\ UNCHANGED <<formVars, jobVars, histVars>>

\* actions_selected
CheckSelection ==
    /\ pc = "select"
    /\ IF delete_likes_var \/ delete_replies_var \/ delete_own_posts_var \/ delete_quotes_var
       THEN /\ pc' = "confirm"
            /\ passed' = Append(passed, "selection")
            /\ UNCHANGED <<appVars, start_dt_utc, end_dt_utc, user_id, identity, invoked,
                           likes_error>>
       ELSE ExitRun(<<"enable_start_button">>) /\ UNCHANGED identity
    /\ UNCHANGED <<formVars, jobVars, histVars>>

\* The run going on whatever the user answers.
ConfirmedWhateverAnswer(yes) == TRUE

\* if not messagebox.askyesno(...): return
Confirmed(yes) == yes

\* messagebox.askyesno("Confirm Deletion", ...)
Confirm ==
    /\ pc = "confirm"
    /\ \E yes \in BOOLEAN :
          IF Confirmed(yes)
          THEN /\ pc' = "identity"
               /\ passed' = IF yes THEN Append(passed, "confirmation") ELSE passed
               /\ UNCHANGED <<appVars, start_dt_utc, end_dt_utc, user_id, identity,
                              invoked, likes_error>>
          ELSE ExitRun(<<"enable_start_button">>) /\ UNCHANGED identity
    /\ UNCHANGED <<formVars, jobVars, histVars>>

\* The statements of process_deletions after the identity is resolved, in
\* their order: the likes job, the tweets job, the completion notice.
AfterIdentity == "dispatch_likes"

AfterLikes == "dispatch_tweets"

\* The likes job called again after the tweets job.
AfterTweetsLikesAgain == "dispatch_likes"

AfterTweets == "complete"

\* user_id = get_authenticated_user_id(), and the test after it.
ResolveIdentity ==
    /\ pc = "identity"
    /\ \E get_me \in GetMeOutcomes :
          LET uid == GetAuthenticatedUserId(client, get_me)
          IN  /\ identity' = IF client = "None" THEN identity ELSE get_me
              /\ IF uid = "None"
                 THEN ExitRun(<<"enable_start_button">>)
                 ELSE /\ user_id' = uid
                      /\ pc' = AfterIdentity
                      /\ UNCHANGED <<appVars, start_dt_utc, end_dt_utc, invoked,
                                     likes_error, passed>>
    /\ UNCHANGED <<formVars, jobVars, histVars>>

\* The entry of a job that goes to its loop without testing the client.
EnterJobWithoutClientTest(name, f, fetch_pc, return_pc) ==
    /\ job' = name
    /\ flags' = f
    /\ deleted_count' = 0
    /\ processed_count' = 0
    /\ page' = NoPage
    /\ idx' = 0
    /\ fetches' = 0
    /\ taken' = 0
    /\ cur' = NoItem
    /\ curCalls' = <<>>
    /\ okCalls' = 0
    /\ prev' = "none"
    /\ liked_in_range' = FALSE
    /\ pc' = fetch_pc
    /\ term' = "none"

\* The entry of either job: the counters are set to 0 and the client tested.
EnterJob(name, f, fetch_pc, return_pc) ==
    /\ job' = name
    /\ flags' = f
    /\ deleted_count' = 0
    /\ processed_count' = 0
    /\ page' = NoPage
    /\ idx' = 0
    /\ fetches' = 0
    /\ taken' = 0
    /\ cur' = NoItem
    /\ curCalls' = <<>>
    /\ okCalls' = 0
    /\ prev' = "none"
    /\ liked_in_range' = FALSE
    /\ IF client = "None"
       THEN pc' = return_pc /\ term' = "no_client"
       ELSE pc' = fetch_pc /\ term' = "none"

\* An exception raised by a fetch ends the run: the rest is skipped.
ReturnToSkipsRest(next_pc, how) ==
    IF how = "fetch_raised" THEN "complete" ELSE next_pc

\* Where a job returns to: every way the loop ends, the handlers around it
\* included, falls to the end of the function, and the caller goes on with
\* its next statement.
ReturnTo(next_pc, how) == next_pc

\* The return of either job to process_deletions: its locals are gone.
LeaveJob(next_pc) ==
    /\ pc' = ReturnTo(next_pc, term)
    /\ job' = "none"
    /\ flags' = [replies |-> FALSE, quotes |-> FALSE, own |-> FALSE]
    /\ deleted_count' = 0
    /\ processed_count' = 0
    /\ page' = NoPage
    /\ idx' = 0
    /\ fetches' = 0
    /\ taken' = 0
    /\ cur' = NoItem
    /\ curCalls' = <<>>
    /\ okCalls' = 0
    /\ prev' = "none"
    /\ liked_in_range' = FALSE
    /\ term' = "none"

\* The three flags bound to the wrong parameters: own posts for quotes.
TweetsJobFlagsSwapped(replies, quotes, own) ==
    [replies |-> replies, quotes |-> own, own |-> quotes]

\* The arguments of the call of delete_user_tweets_by_type, bound to its
\* parameters delete_replies_flag, delete_quotes_flag, delete_own_posts_flag.
TweetsJobFlags(replies, quotes, own) ==
    [replies |-> replies, quotes |-> quotes, own |-> own]

\* if self.delete_likes_var.get(): delete_likes_in_range(...)
DispatchLikes ==
    /\ pc = "dispatch_likes"
    /\ IF delete_likes_var
       THEN /\ EnterJob("likes", flags, "likes_fetch", "likes_return")
            /\ invoked' = invoked \cup {"likes"}
       ELSE pc' = AfterLikes /\ UNCHANGED <<jobVars, histVars, invoked>>
    /\ UNCHANGED <<formVars, appVars, start_dt_utc, end_dt_utc, user_id, identity,
                   likes_error, passed>>

\* if replies or own posts or quotes: delete_user_tweets_by_type(...)
DispatchTweets ==
    /\ pc = "dispatch_tweets"
    /\ IF delete_replies_var \/ delete_own_posts_var \/ delete_quotes_var
       THEN /\ EnterJob("tweets",
                        TweetsJobFlags(delete_replies_var, delete_quotes_var,
                                       delete_own_posts_var),
                        "tweets_fetch", "tweets_return")
            /\ invoked' = invoked \cup {"tweets"}
       ELSE pc' = AfterTweets /\ UNCHANGED <<jobVars, histVars, invoked>>
    /\ UNCHANGED <<formVars, appVars, start_dt_utc, end_dt_utc, user_id, identity,
                   likes_error, passed>>

\* The completion notice and the re-enabling of the Start button.
Complete ==
    /\ pc = "complete"
    /\ ExitRun(<<"showinfo", "enable_start_button">>)
    /\ UNCHANGED identity
    /\ UNCHANGED <<formVars, jobVars, histVars>>


\* ------------------------------------------------------ the Paginator loop
\* One step of "for page in tweepy.Paginator(...)" with the two tests on the
\* page, in either job.  A raised exception reaches the handlers around the
\* loop, which log it; the job then returns.
NextPage(fetch_pc, item_pc, return_pc) ==
    /\ pc = fetch_pc
    /\ \E out \in FetchOutcomes(fetches, taken) :
          /\ fetches' = IF out.kind = "exhausted" THEN fetches ELSE fetches + 1
          /\ IF out.kind = "raise"
             THEN pc' = return_pc /\ term' = "fetch_raised" /\ page' = NoPage
             ELSE IF out.kind = "exhausted"
             THEN pc' = return_pc /\ term' = "exhausted" /\ page' = NoPage
             ELSE IF out.errors /\ OnPageErrors = "break"
             THEN /\ pc' = return_pc
                  /\ term' = "page_errors"
                  /\ page' = [errors |-> out.errors, n |-> out.n]
             ELSE IF out.n = 0
             THEN /\ pc' = return_pc
                  /\ term' = "empty_page"
                  /\ page' = [errors |-> out.errors, n |-> out.n]
             ELSE /\ pc' = item_pc
                  /\ term' = term
                  /\ page' = [errors |-> out.errors, n |-> out.n]
    /\ idx' = 0
    /\ prev' = KindOf(cur, curCalls, prev, start_dt_utc, end_dt_utc)
    /\ cur' = NoItem
    /\ curCalls' = <<>>
    /\ UNCHANGED <<formVars, appVars, runVars, flags, deleted_count, processed_count,
                   job, taken, okCalls, liked_in_range>>

\* The body of "for ... in page.data", in either job: the item is taken and
\* counted, gated on its creation time, and its calls are made.  gate is what
\* the job's tests say of the item, paths the calls it reaches.
LoopBody(tw, gate, paths, outs, item_pc, fetch_pc, return_pc) ==
    LET calls == Issue(paths, outs, 1)
        aborted == Failed(calls) /\ OnItemError # "continue"
    IN  /\ cur' = tw
        /\ taken' = taken + 1
        /\ prev' = KindOf(cur, curCalls, prev, start_dt_utc, end_dt_utc)
        /\ idx' = idx + 1
        /\ processed_count' = ProcessedAfterTake(processed_count, tw)
        /\ curCalls' = calls
        /\ deleted_count' = DeletedAfter(deleted_count, calls, 1)
        /\ okCalls' = okCalls + NumOk(calls)
        /\ liked_in_range' =
              \/ liked_in_range
              \/ /\ job = "likes"
                 /\ tw.created_at # None
                 /\ Instant(start_dt_utc) <= Instant(tw.created_at)
                 /\ Instant(tw.created_at) <= Instant(end_dt_utc)
        /\ IF gate = "return"
           THEN pc' = return_pc /\ term' = "early_stop"
           ELSE IF aborted
           THEN pc' = return_pc /\ term' = "item_error"
           ELSE /\ pc' = IF idx + 1 < page.n THEN item_pc ELSE fetch_pc
                /\ term' = term
        /\ UNCHANGED <<formVars, appVars, runVars, flags, page, job, fetches>>

\* ------------------------------------------------- delete_likes_in_range
LikesNextPage == NextPage("likes_fetch", "likes_item", "likes_return")

LikesItem ==
    /\ pc = "likes_item"
    /\ \E sh \in LikedShapes :
          LET tw == Tweet(taken + 1, fetches, sh.created_at,
                          sh.in_reply_to_user_id, sh.referenced_tweets)
              paths == LikeCalls(tw, start_dt_utc, end_dt_utc)
          IN  \E outs \in [DOMAIN paths -> CallOutcomes] :
                 LoopBody(tw, LikeGate(tw, start_dt_utc, end_dt_utc), paths, outs,
                          "likes_item", "likes_fetch", "likes_return")

LikesReturn ==
    /\ pc = "likes_return"
    /\ LeaveJob(AfterLikes)
    /\ likes_error' = (term \in {"fetch_raised", "page_errors"})
    /\ UNCHANGED <<formVars, appVars, start_dt_utc, end_dt_utc, user_id, identity,
                   invoked, passed>>

\* -------------------------------------------- delete_user_tweets_by_type
TweetsNextPage == NextPage("tweets_fetch", "tweets_item", "tweets_return")

TweetsItem ==
    /\ pc = "tweets_item"
    /\ \E sh \in TweetShapes :
          LET tw == Tweet(taken + 1, fetches, sh.created_at,
                          sh.in_reply_to_user_id, sh.referenced_tweets)
              paths == TweetCalls(tw, start_dt_utc, end_dt_utc, flags)
          IN  \E outs \in [DOMAIN paths -> CallOutcomes] :
                 LoopBody(tw, TweetGate(tw, start_dt_utc, end_dt_utc), paths, outs,
                          "tweets_item", "tweets_fetch", "tweets_return")

TweetsReturn ==
    /\ pc = "tweets_return"
    /\ LeaveJob(AfterTweets)
    /\ UNCHANGED <<formVars, appVars, runVars>>

\* ---------------------------------------------------------- specification
Next ==
    \/ EditDates
    \/ EditSelection
    \/ StartDeletionThread
    \/ RunAfterCallback
    \/ Validate
    \/ CheckSelection
    \/ Confirm
    \/ ResolveIdentity
    \/ DispatchLikes
    \/ LikesNextPage
    \/ LikesItem
    \/ LikesReturn
    \/ DispatchTweets
    \/ TweetsNextPage
    \/ TweetsItem
    \/ TweetsReturn
    \/ Complete

Spec == Init /\ [][Next]_vars


\* ------------------------------------------------- the two jobs by themselves
\* delete_likes_in_range and delete_user_tweets_by_type are functions of the
\* module and read the global client themselves.  JobSpec calls them one
\* after the other as process_deletions does, for every valid range, every
\* value of the four flags and either value of the global client: the one
\* that no run started from the form has, None, included.
JobInit ==
    /\ \E g \in {"ok", "errors"} :
          env = [dotenv_exists |-> TRUE, set_creds |-> CredentialNames, get_me |-> g]
    /\ startup = InitializeTweepyClient(env)
    /\ client = startup.client
    /\ start_button = "disabled"
    /\ after_queue = <<>>
    /\ threads = 1
    /\ start_date_entry \in DateTexts
    /\ end_date_entry \in DateTexts
    /\ ValidateDates(start_date_entry, end_date_entry) # NoRange
    /\ start_dt_utc = ValidateDates(start_date_entry, end_date_entry)[1]
    /\ end_dt_utc = ValidateDates(start_date_entry, end_date_entry)[2]
    /\ delete_likes_var \in BOOLEAN
    /\ delete_replies_var \in BOOLEAN
    /\ delete_own_posts_var \in BOOLEAN
    /\ delete_quotes_var \in BOOLEAN
    /\ pc = "dispatch_likes"
    /\ user_id = "uid"
    /\ identity = "ok"
    /\ invoked = {}
    /\ likes_error = FALSE
    /\ passed = AllTests
    /\ flags = [replies |-> FALSE, quotes |-> FALSE, own |-> FALSE]
    /\ deleted_count = 0
    /\ processed_count = 0
    /\ page = NoPage
    /\ idx = 0
    /\ job = "none"
    /\ fetches = 0
    /\ taken = 0
    /\ cur = NoItem
    /\ curCalls = <<>>
    /\ okCalls = 0
    /\ prev = "none"
    /\ term = "none"
    /\ liked_in_range = FALSE

JobNext ==
    \/ DispatchLikes
    \/ LikesNextPage
    \/ LikesItem
    \/ LikesReturn
    \/ DispatchTweets
    \/ TweetsNextPage
    \/ TweetsItem
    \/ TweetsReturn

JobSpec == JobInit /\ [][JobNext]_vars

\* -------------------------------------------------------------- properties
\* The properties speak of cur, the item the loop body has just handled, and
\* of curCalls, the calls issued for it.  Every item taken from a page is cur
\* in the state its loop body ends in, so an invariant on cur is a statement
\* about every item of every stream.

\* cur is an item of the running job.
CurTaken == job # "none" /\ cur.id > 0

CurDated == CurTaken /\ cur.created_at # None

CurInRange ==
    /\ CurDated
    /\ Instant(start_dt_utc) <= Instant(cur.created_at)
    /\ Instant(cur.created_at) <= Instant(end_dt_utc)

CurTooOld == CurDated /\ Instant(cur.created_at) < Instant(start_dt_utc)

CurTooNew == CurDated /\ Instant(cur.created_at) > Instant(end_dt_utc)

CurIsReply == cur.in_reply_to_user_id

CurIsQuote == "quoted" \in cur.referenced_tweets

CurIsRetweet == "retweeted" \in cur.referenced_tweets

\* The item matches a flag the tweets job was called with.
CurSelected ==
    \/ flags.replies /\ CurIsReply
    \/ flags.quotes /\ CurIsQuote
    \/ flags.own /\ ~CurIsReply /\ ~CurIsQuote

LoopGoesOn ==
    \/ job = "likes" /\ pc \in {"likes_item", "likes_fetch"}
    \/ job = "tweets" /\ pc \in {"tweets_item", "tweets_fetch"}

JobReturned == pc \in {"likes_return", "tweets_return"}

\* C1: no delete_tweet call is issued for an item with a 'retweeted'
\* relation, whatever its other fields and the three flags.
C1_RetweetNeverDeleted ==
    (job = "tweets" /\ CurTaken /\ CurIsRetweet) => curCalls = <<>>

\* An in-range retweet that is also a reply and a quote, with all three flags
\* set, has been handled without a call.
C1_Witness ==
    /\ job = "tweets" /\ CurInRange /\ CurIsRetweet /\ CurIsReply /\ CurIsQuote
    /\ flags.replies /\ flags.quotes /\ flags.own
    /\ curCalls = <<>>

\* C2: every unlike and every delete_tweet call targets an item whose
\* creation time t satisfies start <= t <= end.
C2_CallsOnlyInRange ==
    (CurTaken /\ curCalls # <<>>) => CurInRange

\* An item created at the last instant of the range has been unliked.
C2_Witness ==
    /\ job = "likes" /\ CurDated
    /\ cur.created_at = end_dt_utc
    /\ Len(curCalls) = 1 /\ curCalls[1].outcome = "ok"

\* C3: at most one delete_tweet call is issued per item, also when the call
\* fails.
C3_AtMostOneDeletePerItem ==
    job = "tweets" => Len(curCalls) <= 1

\* A reply that is also a quote, with all three flags set, got one call, which
\* failed.
C3_Witness ==
    /\ job = "tweets" /\ CurInRange /\ CurIsReply /\ CurIsQuote /\ ~CurIsRetweet
    /\ flags.replies /\ flags.quotes /\ flags.own
    /\ Len(curCalls) = 1 /\ curCalls[1].outcome = "TweepyException"

\* C4: an in-range item that is no retweet is deleted on the first matching
\* path of: Reply if wantReplies and reply; else Quote if wantQuotes and
\* quote; else Original if wantOwnPosts and neither; else not at all.
C4_ExpectedPath ==
    IF flags.replies /\ CurIsReply THEN "reply"
    ELSE IF flags.quotes /\ CurIsQuote THEN "quote"
    ELSE IF flags.own /\ ~CurIsReply /\ ~CurIsQuote THEN "own"
    ELSE "none"

C4_FirstMatchingPath ==
    (job = "tweets" /\ CurInRange /\ ~CurIsRetweet) =>
        IF C4_ExpectedPath = "none"
        THEN curCalls = <<>>
        ELSE Len(curCalls) = 1 /\ curCalls[1].path = C4_ExpectedPath

\* A reply that is also a quote, with wantReplies and wantQuotes set, has been
\* deleted once, on the Reply path.
C4_Witness ==
    /\ job = "tweets" /\ CurInRange /\ ~CurIsRetweet /\ CurIsReply /\ CurIsQuote
    /\ flags.replies /\ flags.quotes
    /\ curCalls = <<[path |-> "reply", outcome |-> "ok"]>>
    /\ deleted_count = 1

\* C5: the tweets job stops at the first item older than range.start: no
\* call for it, no item or page after it, processed count = its position.
C5_EarlyStop ==
    /\ (job = "tweets" /\ CurTooOld) =>
          /\ pc = "tweets_return"
          /\ term = "early_stop"
          /\ curCalls = <<>>
          /\ processed_count = cur.id
          /\ taken = cur.id
          /\ fetches = cur.page
    /\ term = "early_stop" => (job = "tweets" /\ CurTooOld)

\* The job stopped at the second item of a non-increasing stream, the first
\* having been deleted.
C5_Witness ==
    /\ job = "tweets" /\ CurTooOld /\ term = "early_stop"
    /\ cur.id = 2 /\ processed_count = 2 /\ deleted_count = 1
    /\ prev = "other"

C9_Counters ==
    /\ processed_count = taken
    /\ deleted_count = okCalls
    /\ deleted_count <= processed_count

\* The first item was acted on, the call for the second failed.
C9_Witness ==
    /\ CurTaken /\ Failed(curCalls) /\ prev = "other"
    /\ processed_count = 2 /\ deleted_count = 1

\* C10: a page that reports errors ends the job: none of its items is taken,
\* no page is requested after it, the counts stay those of the earlier pages
\* and the job returns to its caller.
C10_PageErrorsEndJob ==
    /\ [](page.errors =>
            (JobReturned /\ term = "page_errors" /\ idx = 0 /\ cur = NoItem))
    /\ [][(page'.errors /\ ~page.errors) =>
            /\ fetches' = fetches + 1
            /\ taken' = taken
            /\ processed_count' = processed_count
            /\ deleted_count' = deleted_count
            /\ okCalls' = okCalls]_vars
    /\ [][page.errors =>
            (fetches' = 0 /\ pc' \in {"dispatch_tweets", "complete"})]_vars

\* The second page of the likes job reported errors and carried data; the
\* one item of the first page had been unliked.
C10_Witness ==
    /\ job = "likes" /\ page.errors /\ page.n > 0 /\ fetches = 2
    /\ processed_count = 1 /\ deleted_count = 1 /\ pc = "likes_return"

\* The worker thread is between the resolution of the identity and the
\* completion notice.
JobPhase ==
    pc \in {"dispatch_likes", "likes_fetch", "likes_item", "likes_return",
            "dispatch_tweets", "tweets_fetch", "tweets_item", "tweets_return",
            "complete"}

\* C11: no page is listed and no unlike or delete call is made without a
\* resolved identity.  A failed authentication at startup leaves the global
\* client None, and then the Start button starts no run; a run whose get_me
\* call does not answer with a user ends before either job is called.
C11_NoCallWithoutIdentity ==
    /\ ~startup.ok => client = "None"
    /\ client = "None" =>
          /\ pc = "idle" /\ threads = 0
          /\ identity = "none" /\ invoked = {}
          /\ job = "none" /\ fetches = 0 /\ curCalls = <<>>
    /\ (JobPhase \/ job # "none") =>
          (client = "Client" /\ identity = "ok" /\ user_id = "uid")
    /\ invoked # {} => (client = "Client" /\ identity = "ok")
    /\ identity \notin {"none", "ok"} => (pc = "idle" /\ job = "none")

\* get_me raised in a run: the run has ended with no job called and the
\* re-enabling of the button is queued.
C11_Witness ==
    /\ identity = "TweepyException" /\ pc = "idle" /\ invoked = {}
    /\ start_button = "disabled" /\ after_queue = <<"enable_start_button">>

\* C12: when one of the four credentials is absent or empty,
\* initialize_tweepy_client returns failure without constructing the client
\* and without a get_me call, and the global client stays None.
C12_NoCredentialNoNetwork ==
    env.set_creds # CredentialNames =>
        /\ ~startup.ok
        /\ ~startup.constructed
        /\ startup.get_me_calls = 0
        /\ client = "None"

\* The .env file is there, only ACCESS_TOKEN_SECRET is missing and get_me
\* would have answered: the startup made no call.
C12_Witness ==
    /\ env.dotenv_exists
    /\ env.set_creds = CredentialNames \ {"ACCESS_TOKEN_SECRET"}
    /\ env.get_me = "ok"
    /\ startup.get_me_calls = 0 /\ client = "None"

\* The two entries hold well-formed dates, the start date after the end date.
InvertedDates ==
    /\ start_date_entry.fmt = "ok" /\ end_date_entry.fmt = "ok"
    /\ start_date_entry.day > end_date_entry.day

\* C13: for every pair of dates with start after end, validate_dates fails
\* and the run ends there: no get_me call, no page request, no unlike and no
\* delete call is made, and the re-enabling of the Start button is queued.
C13_InvertedDatesNoRun ==
    /\ [](InvertedDates =>
            /\ pc \in {"idle", "validate"}
            /\ start_dt_utc = None /\ end_dt_utc = None
            /\ job = "none" /\ fetches = 0 /\ curCalls = <<>>
            /\ pc = "validate" => (identity = "none" /\ invoked = {}))
    /\ [][(pc = "validate" /\ InvertedDates) =>
            /\ pc' = "idle"
            /\ identity' = "none" /\ invoked' = {}
            /\ job' = "none" /\ fetches' = 0 /\ curCalls' = <<>>
            /\ after_queue' = Append(after_queue, "enable_start_button")]_vars

\* A run started with inverted dates has ended without a call.
C13_Witness ==
    /\ InvertedDates /\ pc = "idle" /\ threads = 0
    /\ start_button = "disabled" /\ after_queue = <<"enable_start_button">>
    /\ identity = "none" /\ invoked = {}

\* C14: the range validate_dates returns starts at 00:00:00.000000 UTC of
\* the start date and ends at 23:59:59.999999 UTC of the end date, the last
\* instant of that day; its start is not after its end, and for two equal
\* dates it is exactly that one day.
C14_RangeOfWholeDays ==
    start_dt_utc # None =>
        /\ end_dt_utc # None
        /\ start_date_entry.fmt = "ok" /\ end_date_entry.fmt = "ok"
        /\ start_dt_utc.utcoffset = 0 /\ end_dt_utc.utcoffset = 0
        /\ start_dt_utc.wall \div TicksPerDay = start_date_entry.day
        /\ start_dt_utc.wall % TicksPerDay = 0
        /\ end_dt_utc.wall \div TicksPerDay = end_date_entry.day
        /\ end_dt_utc.wall % TicksPerDay = TicksPerDay - 1
        /\ Instant(start_dt_utc) <= Instant(end_dt_utc)
        /\ start_date_entry.day = end_date_entry.day =>
               Instant(end_dt_utc) - Instant(start_dt_utc) = TicksPerDay - 1

\* The same date, not the first day, in both entries, validated.
C14_Witness ==
    /\ pc = "select"
    /\ start_date_entry = DateText(MaxDay) /\ end_date_entry = DateText(MaxDay)
    /\ start_dt_utc = Datetime(MaxDay * TicksPerDay, 0)
    /\ end_dt_utc = Datetime(MaxDay * TicksPerDay + TicksPerDay - 1, 0)

\* One of the three check boxes of the tweets job is ticked.
TweetsSelected == delete_replies_var \/ delete_own_posts_var \/ delete_quotes_var

\* C15: the likes job is called exactly when the likes box is ticked; the
\* tweets job is called exactly when one of the replies, quotes and own-posts
\* boxes is ticked, and it receives the three values as they are; with none
\* of the four boxes ticked the run ends at the selection test with no call.
C15_JobsFollowSelection ==
    /\ [][(pc = "dispatch_likes" /\ pc' # pc) =>
            /\ (job' = "likes") <=> delete_likes_var
            /\ ("likes" \in invoked') <=> delete_likes_var]_vars
    /\ [][(pc = "dispatch_tweets" /\ pc' # pc) =>
            /\ (job' = "tweets") <=> TweetsSelected
            /\ ("tweets" \in invoked') <=> TweetsSelected
            /\ job' = "tweets" =>
                  /\ flags'.replies = delete_replies_var
                  /\ flags'.quotes = delete_quotes_var
                  /\ flags'.own = delete_own_posts_var]_vars
    /\ [][(pc = "select" /\ ~delete_likes_var /\ ~TweetsSelected) =>
            /\ pc' = "idle"
            /\ identity' = "none" /\ invoked' = {}
            /\ job' = "none" /\ fetches' = 0 /\ curCalls' = <<>>]_vars
    /\ [][invoked' # invoked =>
            (pc \in {"dispatch_likes", "dispatch_tweets"} \/ invoked' = {})]_vars
    /\ [](job # "none" => job \in invoked)

\* Only the quotes box is ticked: the tweets job runs alone, called with the
\* quotes flag and no other.
C15_Witness ==
    /\ job = "tweets" /\ invoked = {"tweets"}
    /\ ~delete_likes_var /\ ~delete_replies_var /\ ~delete_own_posts_var
    /\ delete_quotes_var
    /\ flags = [replies |-> FALSE, quotes |-> TRUE, own |-> FALSE]

LikesPhase == pc \in {"dispatch_likes", "likes_fetch", "likes_item", "likes_return"}

TweetsPhase ==
    pc \in {"dispatch_tweets", "tweets_fetch", "tweets_item", "tweets_return",
            "complete"}

\* C16: the two jobs of a run never interleave and the likes job comes
\* first: while liked pages are requested and unlike calls made, the tweets
\* job has not been called in this run, and once the run has gone on to the
\* tweets job it requests no liked page and makes no unlike call.
C16_LikesBeforeTweets ==
    /\ [](LikesPhase => "tweets" \notin invoked)
    /\ [](job = "likes" => (LikesPhase /\ invoked = {"likes"}))
    /\ [](job = "tweets" => (TweetsPhase /\ "tweets" \in invoked))
    /\ [][TweetsPhase => (job' # "likes" /\ ~LikesPhase')]_vars
    /\ [][(fetches' > fetches \/ taken' > taken) =>
            /\ job' = job
            /\ job = "likes" => "tweets" \notin invoked]_vars

\* Both jobs were called in the run and the tweets job has issued a delete
\* call.
C16_Witness ==
    /\ job = "tweets" /\ invoked = {"likes", "tweets"}
    /\ pc = "tweets_item" /\ Len(curCalls) = 1 /\ fetches = 1

\* C17: no error of a job passes its boundary.  However the likes job ends,
\* on a page with errors or an exception raised by a fetch included, and
\* whatever failed for its items, it returns to process_deletions, which goes
\* on to the test of the tweets job and calls that job when it is selected.
\* The tweets job leaves what the likes job did as it was, and however it
\* ends the run goes on to its completion notice, the only way out of a run
\* whose identity is resolved.
C17_ErrorsStayInsideJob ==
    /\ [](pc = "likes_return" =>
            term \in {"fetch_raised", "page_errors", "exhausted", "empty_page"})
    /\ [][pc = "likes_return" =>
            /\ pc' = "dispatch_tweets"
            /\ likes_error' = (term \in {"fetch_raised", "page_errors"})]_vars
    /\ [][(pc = "dispatch_tweets" /\ TweetsSelected /\ pc' # pc) =>
            (job' = "tweets" /\ pc' = "tweets_fetch")]_vars
    /\ [][TweetsPhase =>
            /\ likes_error' = likes_error
            /\ ("likes" \in invoked') <=> ("likes" \in invoked)]_vars
    /\ [][pc = "tweets_return" => pc' = "complete"]_vars
    /\ [][(JobPhase /\ pc' = "idle") =>
            /\ pc = "complete"
            /\ after_queue' = after_queue \o <<"showinfo", "enable_start_button">>]_vars

\* The likes job ended on an exception raised by a fetch; the tweets job ran
\* after it and ended on one too, and the run is at its completion notice.
C17_Witness ==
    /\ pc = "tweets_return" /\ term = "fetch_raised"
    /\ likes_error /\ invoked = {"likes", "tweets"}

\* C18: a likes job that finds no liked item created in the range, as a run
\* repeated over a range already emptied does, issues no unlike call: its
\* count of unliked items stays 0, its count of processed items is the
\* number of items it has scanned, no call of it fails, and when its fetches
\* succeed it ends with no error.
C18_RerunUnlikesNothing ==
    (job = "likes" /\ ~liked_in_range) =>
        /\ curCalls = <<>>
        /\ okCalls = 0
        /\ deleted_count = 0
        /\ processed_count = taken
        /\ prev # "failed"
        /\ term \in {"none", "exhausted", "empty_page", "fetch_raised", "page_errors"}

\* The likes job has scanned MaxItems items, the last one older than the
\* range, none of them in it, and has come to the end of the stream.
C18_Witness ==
    /\ job = "likes" /\ pc = "likes_return" /\ term = "exhausted"
    /\ ~liked_in_range /\ taken = MaxItems /\ prev = "old"
    /\ processed_count = MaxItems /\ deleted_count = 0

\* What is left of the loop of a job: the items the stream still holds, and
\* the request that follows the last item of a page.
LoopVariant ==
    IF JobReturned THEN 0
    ELSE 2 * (MaxItems - taken) + (IF pc \in {"likes_fetch", "tweets_fetch"} THEN 1 ELSE 0)

CurCategoryFlag ==
    IF CurIsReply THEN flags.replies
    ELSE IF CurIsQuote THEN flags.quotes
    ELSE flags.own

\* C20 as it stands: the tweets job deletes an item only when the flag of
\* the item's category is set.
C20_DeletedOnlyIfCategoryFlag ==
    (job = "tweets" /\ curCalls # <<>>) => CurCategoryFlag

\* C20, amended: the tweets job deletes an in-range item only when a flag
\* that matches the item is set: an item with a reply target when the
\* replies flag is set or when it has a 'quoted' relation and the quotes
\* flag is set, a quote without a reply target when the quotes flag is set,
\* an original when the own-posts flag is set.
C20_DeletedOnlyIfFlagMatches ==
    (job = "tweets" /\ curCalls # <<>>) =>
        /\ CurInRange /\ ~CurIsRetweet
        /\ CurIsReply => (flags.replies \/ (CurIsQuote /\ flags.quotes))
        /\ (~CurIsReply /\ CurIsQuote) => flags.quotes
        /\ (~CurIsReply /\ ~CurIsQuote) => flags.own

\* A reply that is also a quote, deleted through the quote branch by a job
\* called with the quotes flag and without the replies flag.
C20_Witness ==
    /\ job = "tweets" /\ CurIsReply /\ CurIsQuote
    /\ ~flags.replies /\ flags.quotes
    /\ curCalls = <<[path |-> "quote", outcome |-> "ok"]>>

\* A step that makes a remote call: get_me of the run, a page request, or
\* the calls of an item taken.
RemoteCallStep ==
    \/ identity' # identity /\ identity' # "none"
    \/ fetches' > fetches
    \/ taken' > taken

\* C21: a run makes a remote call only after it has, in this order, validated
\* the dates, found an action selected and been answered yes in the
\* confirmation dialog.  A run whose dialog is declined ends with no remote
\* call made, and the Start button is enabled again by the callback it
\* leaves.
C21_CallsOnlyAfterConfirmation ==
    /\ [](Len(passed) <= Len(AllTests) /\ passed = SubSeq(AllTests, 1, Len(passed)))
    /\ [](pc = "select" => (passed = <<"dates">> /\ start_dt_utc # None))
    /\ [](pc = "confirm" => passed = <<"dates", "selection">>)
    /\ []((pc = "identity" \/ JobPhase \/ job # "none" \/ identity # "none"
              \/ invoked # {}) => passed = AllTests)
    /\ [][RemoteCallStep => passed = AllTests]_vars
    /\ [][(pc = "confirm" /\ pc' # "idle") => (pc' = "identity" /\ passed' = AllTests)]_vars
    /\ [][(pc = "confirm" /\ pc' = "idle") =>
            /\ passed' = <<"dates", "selection">>
            /\ identity' = "none" /\ invoked' = {}
            /\ job' = "none" /\ fetches' = 0 /\ curCalls' = <<>>
            /\ after_queue' = Append(after_queue, "enable_start_button")]_vars
    /\ [][(after_queue # <<>> /\ after_queue' = Tail(after_queue)
             /\ Head(after_queue) = "enable_start_button") =>
            start_button' = "normal"]_vars

\* The dialog of a run was declined: no call was made and the button is
\* enabled again.
C21_Witness ==
    /\ pc = "idle" /\ passed = <<"dates", "selection">>
    /\ identity = "none" /\ invoked = {}
    /\ start_button = "normal" /\ after_queue = <<>>

\* C22: at most one worker is at work at any time.  The Start button is
\* disabled in the step that starts a worker and stays disabled while it
\* runs; it is enabled again only by a callback that an exit path of
\* process_deletions has handed to the main loop, every exit path hands one
\* over as its last act, and the exit paths are the failed validation, the
\* empty selection, the declined dialog, the failed identity and the
\* completion.  A run therefore starts only when no run is in progress, after
\* the last remote call of the run before it.
C22_OneWorkerAtATime ==
    /\ [](threads \in {0, 1})
    /\ [](threads = 1 <=> pc # "idle")
    /\ [](pc # "idle" => (start_button = "disabled" /\ after_queue = <<>>))
    /\ [](pc = "idle" => job = "none")
    /\ [][threads' > threads =>
            /\ threads = 0 /\ pc = "idle" /\ pc' = "validate"
            /\ start_button = "normal" /\ start_button' = "disabled"]_vars
    /\ [][(start_button = "disabled" /\ start_button' = "normal") =>
            /\ pc = "idle" /\ threads = 0
            /\ after_queue # <<>> /\ Head(after_queue) = "enable_start_button"]_vars
    /\ [][Len(after_queue') > Len(after_queue) => (pc # "idle" /\ pc' = "idle")]_vars
    /\ [][(pc # "idle" /\ pc' = "idle") =>
            /\ pc \in {"validate", "select", "confirm", "identity", "complete"}
            /\ threads' = threads - 1
            /\ after_queue'[Len(after_queue')] = "enable_start_button"]_vars
    /\ [][RemoteCallStep => (threads = 1 /\ threads' <= 1 /\ start_button' = "disabled")]_vars

\* A run that called both jobs has completed, its callbacks have run and the
\* button is enabled for the next run.
C22_Witness ==
    /\ pc = "idle" /\ threads = 0 /\ invoked = {"likes", "tweets"}
    /\ start_button = "normal" /\ after_queue = <<>>

====
